---- MODULE Spec2Model ----
(***************************************************************************)
(* Model of the physics core of simulation.py: Vector2D, GameObject and    *)
(* PhysicsEngine.                                                          *)
(*                                                                         *)
(* Arithmetic.  The program computes in float64.  The model computes in    *)
(* fixed point: a float f is the integer round(f * Scale).  Sums,          *)
(* differences, comparisons, abs and multiplication by an integer are      *)
(* exact; a quotient or a square root is rounded to the nearest fixed      *)
(* point value, as the float operation rounds to the nearest float.        *)
(* Integers of the program (size, grid_size, time_step) stay integers.     *)
(***************************************************************************)
EXTENDS Integers, Sequences, FiniteSets, TLC

VARIABLES
    grid_size,    \* PhysicsEngine.grid_size
    objects,      \* PhysicsEngine.objects, a list of GameObject
    time_step,    \* PhysicsEngine.time_step
    error_count,  \* PhysicsEngine.error_count
    result,       \* what the most recent call returned (None, or get_state's dict)
    origin,       \* history: how the object list was populated, and with what
    checks,       \* history: the check_collision calls of the most recent update()
    updates       \* history: update() calls since the list was populated

vars == <<grid_size, objects, time_step, error_count, result, origin, checks, updates>>

-----------------------------------------------------------------------------
(* Bounds *)

MaxTicks == 25          \* update() calls per run of an initialised engine
ScenarioTicks == 900    \* update() calls per run of a hand-built scenario

-----------------------------------------------------------------------------
(* Fixed point *)

Scale == 512

Fx(n) == n * Scale

Abs(a) == IF a < 0 THEN -a ELSE a

\* a / b rounded to the nearest integer, b > 0
RoundDiv(a, b) == (2 * a + b) \div (2 * b)

RECURSIVE SqrtSearch(_, _, _)
SqrtSearch(n, lo, hi) ==
    IF lo >= hi THEN lo
    ELSE LET mid == (lo + hi + 1) \div 2
         IN IF mid * mid <= n THEN SqrtSearch(n, mid, hi)
                              ELSE SqrtSearch(n, lo, mid - 1)

\* np.sqrt of a non-negative number, rounded to nearest
RoundSqrt(n) ==
    LET r == SqrtSearch(n, 0, 46340)
    IN IF n - r * r > r THEN r + 1 ELSE r

\* int(f): truncation toward zero
int(f) == IF f >= 0 THEN f \div Scale ELSE -((-f) \div Scale)

-----------------------------------------------------------------------------
(* Vector2D *)

Vector2D(x, y) == [x |-> x, y |-> y]

\* Vector2D built from integer coordinates
IntVector(x, y) == Vector2D(Fx(x), Fx(y))

add(a, b) == Vector2D(a.x + b.x, a.y + b.y)

sub(a, b) == Vector2D(a.x - b.x, a.y - b.y)

\* multiplication by an integer scalar (the code only multiplies by 2)
mul(a, k) == Vector2D(a.x * k, a.y * k)

\* A short vector scaled up by a power of two.  The direction is unchanged;
\* the rounding of its length then weighs as little as it does in float64.
RECURSIVE Widen(_)
Widen(v) ==
    IF (v.x = 0 /\ v.y = 0) \/ Abs(v.x) >= 8192 \/ Abs(v.y) >= 8192 THEN v
    ELSE Widen(mul(v, 2))

normalize(v) ==
    LET w == Widen(v)
        length == RoundSqrt(w.x * w.x + w.y * w.y)
    IN IF length = 0 THEN Vector2D(0, 0)
       ELSE Vector2D(RoundDiv(w.x * Scale, length), RoundDiv(w.y * Scale, length))

-----------------------------------------------------------------------------
(* GameObject *)

GameObject(t, p, v, s, c, st) ==
    [obj_type |-> t, position |-> p, velocity |-> v, size |-> s,
     color |-> c, is_static |-> st]

get_bounds(obj) ==
    LET half_size == obj.size \div 2
    IN << int(obj.position.x - Fx(half_size)),
          int(obj.position.y - Fx(half_size)),
          int(obj.position.x + Fx(half_size)),
          int(obj.position.y + Fx(half_size)) >>

\* mutant: edges that touch count as separated
check_collision_Strict(a, b) ==
    LET bounds1 == get_bounds(a)
        bounds2 == get_bounds(b)
    IN ~ (bounds1[3] <= bounds2[1] \/ bounds1[1] >= bounds2[3] \/
          bounds1[4] <= bounds2[2] \/ bounds1[2] >= bounds2[4])

check_collision(a, b) ==
    LET bounds1 == get_bounds(a)
        bounds2 == get_bounds(b)
    IN ~ (bounds1[3] < bounds2[1] \/ bounds1[1] > bounds2[3] \/
          bounds1[4] < bounds2[2] \/ bounds1[2] > bounds2[4])

-----------------------------------------------------------------------------
(* PhysicsEngine: collision resolution *)

\* mutant: the factor 2 of the reflection is lost
reflect_Single(v, normal) ==
    LET dot_product == v.x * normal.x + v.y * normal.y
    IN Vector2D(v.x - RoundDiv(dot_product * normal.x, Scale * Scale),
                v.y - RoundDiv(dot_product * normal.y, Scale * Scale))

\* v - 2 (v . normal) normal, the reflection both bounce methods compute
reflect(v, normal) ==
    LET dot_product == v.x * normal.x + v.y * normal.y
    IN Vector2D(v.x - RoundDiv(2 * dot_product * normal.x, Scale * Scale),
                v.y - RoundDiv(2 * dot_product * normal.y, Scale * Scale))

\* mutant: the velocity is reflected but the body is not pushed off
_bounce_off_static_NoPush(objs, i, j) ==
    LET normal == normalize(sub(objs[i].position, objs[j].position))
    IN [objs EXCEPT ![i] = [@ EXCEPT !.velocity = reflect(@, normal)]]

_bounce_off_static(objs, i, j) ==
    LET normal == normalize(sub(objs[i].position, objs[j].position))
    IN [objs EXCEPT ![i] = [@ EXCEPT !.velocity = reflect(@, normal),
                                     !.position = add(@, mul(normal, 2))]]

_bounce_off_mobile(objs, i, j) ==
    LET normal == normalize(sub(objs[i].position, objs[j].position))
        separation == mul(normal, 2)
    IN [objs EXCEPT ![i] = [@ EXCEPT !.velocity = reflect(@, normal),
                                     !.position = add(@, separation)],
                    ![j] = [@ EXCEPT !.velocity = reflect(@, normal),
                                     !.position = sub(@, separation)]]

\* mutant: the is_static test of the collider is lost
_resolve_collision_AlwaysMobile(objs, i, j) == _bounce_off_mobile(objs, i, j)

_resolve_collision(objs, i, j) ==
    IF objs[j].is_static THEN _bounce_off_static(objs, i, j)
                         ELSE _bounce_off_mobile(objs, i, j)

\* One check_collision call of the pass, as the history variable records it
CheckRecord(objs, i, j) ==
    [i |-> i, j |-> j,
     bounds1 |-> get_bounds(objs[i]), bounds2 |-> get_bounds(objs[j]),
     before |-> objs[i].velocity,
     hit |-> check_collision(objs[i], objs[j])]

\* The double loop of _handle_collisions from pair (i, j) on.  Every
\* resolution is applied to the list at once and later pairs see it.
RECURSIVE CollisionLoop(_, _, _)
CollisionLoop(st, i, j) ==
    IF i > Len(st.objs) THEN st
    ELSE IF st.objs[i].is_static \/ j > Len(st.objs) THEN CollisionLoop(st, i + 1, 1)
    ELSE IF i = j THEN CollisionLoop(st, i, j + 1)
    ELSE LET rec == CheckRecord(st.objs, i, j)
             next == [objs |-> IF rec.hit THEN _resolve_collision(st.objs, i, j)
                                          ELSE st.objs,
                      log |-> Append(st.log, rec)]
         IN CollisionLoop(next, i, j + 1)

_handle_collisions(objs) == CollisionLoop([objs |-> objs, log |-> << >>], 1, 1)

-----------------------------------------------------------------------------
(* PhysicsEngine: boundaries *)

\* mutant: the elif branch for the upper limit is lost
ClampAxis_NoUpper(p, v, half_size, grid) ==
    IF p - Fx(half_size) < 0
        THEN [p |-> Fx(half_size), v |-> Abs(v)]
    ELSE [p |-> p, v |-> v]

\* one axis of _enforce_boundaries for one body
ClampAxis(p, v, half_size, grid) ==
    IF p - Fx(half_size) < 0
        THEN [p |-> Fx(half_size), v |-> Abs(v)]
    ELSE IF p + Fx(half_size) > Fx(grid)
        THEN [p |-> Fx(grid - half_size), v |-> -Abs(v)]
    ELSE [p |-> p, v |-> v]

EnforceOne(obj, grid) ==
    IF obj.is_static THEN obj
    ELSE LET half_size == obj.size \div 2
             cx == ClampAxis(obj.position.x, obj.velocity.x, half_size, grid)
             cy == ClampAxis(obj.position.y, obj.velocity.y, half_size, grid)
         IN [obj EXCEPT !.position = Vector2D(cx.p, cy.p),
                        !.velocity = Vector2D(cx.v, cy.v)]

_enforce_boundaries(objs, grid) ==
    [k \in DOMAIN objs |-> EnforceOne(objs[k], grid)]

\* the integration loop of update()
Integrate(objs) ==
    [k \in DOMAIN objs |->
        IF ~ objs[k].is_static
            THEN [objs[k] EXCEPT !.position = add(@, objs[k].velocity)]
            ELSE objs[k]]

-----------------------------------------------------------------------------
(* PhysicsEngine: initialisation *)

\* cos of k * 30 degrees, in thousandths
CosMilli == << 1000, 866, 500, 0, -500, -866, -1000, -866, -500, 0, 500, 866 >>

\* the angles np.random.uniform(0, 2 pi) is drawn from, in units of 30 degrees
Angles == {0, 1, 4, 6, 7, 10}

Cos(k) == RoundDiv(CosMilli[(k % 12) + 1] * Scale, 1000)

Sin(k) == Cos(k + 9)

_get_random_velocity(angle) == Vector2D(Cos(angle), Sin(angle))

wall_thickness == 20

wall_color == << 0, 255, 0 >>

\* the object list initialize_simulation() builds, for the two drawn angles
initialize_simulation(g, red_angle, blue_angle) ==
    << GameObject("wall", IntVector(g \div 2, wall_thickness \div 2),
                  IntVector(0, 0), wall_thickness, wall_color, TRUE),
       GameObject("wall", IntVector(g \div 2, g - wall_thickness \div 2),
                  IntVector(0, 0), wall_thickness, wall_color, TRUE),
       GameObject("wall", IntVector(wall_thickness \div 2, g \div 2),
                  IntVector(0, 0), wall_thickness, wall_color, TRUE),
       GameObject("wall", IntVector(g - wall_thickness \div 2, g \div 2),
                  IntVector(0, 0), wall_thickness, wall_color, TRUE),
       GameObject("center_block", IntVector(g \div 2, g \div 2),
                  IntVector(0, 0), 50, << 0, 255, 0 >>, TRUE),
       GameObject("red_block", IntVector(100, 100),
                  _get_random_velocity(red_angle), 30, << 255, 0, 0 >>, FALSE),
       GameObject("blue_block", IntVector(900, 900),
                  _get_random_velocity(blue_angle), 30, << 0, 0, 255 >>, FALSE) >>

\* the dict get_state() returns
get_state ==
    [kind |-> "dict",
     time_step |-> time_step,
     grid_size |-> grid_size,
     error_count |-> error_count,
     objects |-> [k \in DOMAIN objects |->
                    [type |-> objects[k].obj_type,
                     position |-> objects[k].position,
                     velocity |-> objects[k].velocity,
                     size |-> objects[k].size,
                     color |-> objects[k].color,
                     is_static |-> objects[k].is_static]]]

None == [kind |-> "None"]

-----------------------------------------------------------------------------
(* Operations *)

\* the grid sizes an engine is constructed with
GridSizes == {0, 60, 100, 112, 1000}

TickBound == IF origin.kind = "scenario" THEN ScenarioTicks ELSE MaxTicks

\* PhysicsEngine(grid_size): a fresh engine replaces the current one
PhysicsEngineInit(g) ==
    /\ grid_size' = g
    /\ objects' = << >>
    /\ time_step' = 0
    /\ error_count' = 0
    /\ result' = None
    /\ origin' = [kind |-> "none", setup |-> << >>, again |-> FALSE]
    /\ checks' = << >>
    /\ updates' = 0

\* mutant: the list is not cleared
clear_Keep(objs) == objs

\* self.objects.clear()
clear(objs) == << >>

\* mutant: self.time_step = 0 is lost
InitializeSimulation_KeepsTick(red_angle, blue_angle) ==
    /\ objects' = clear(objects) \o initialize_simulation(grid_size, red_angle, blue_angle)
    /\ error_count' = 0
    /\ result' = None
    /\ origin' = [kind |-> "initialize", setup |-> objects',
                  again |-> origin.kind = "initialize"]
    /\ checks' = << >>
    /\ updates' = 0
    /\ UNCHANGED <<grid_size, time_step>>

\* initialize_simulation(); origin.again records that the engine had been
\* initialised before
InitializeSimulation(red_angle, blue_angle) ==
    /\ objects' = clear(objects) \o initialize_simulation(grid_size, red_angle, blue_angle)
    /\ time_step' = 0
    /\ error_count' = 0
    /\ result' = None
    /\ origin' = [kind |-> "initialize", setup |-> objects',
                  again |-> origin.kind = "initialize"]
    /\ checks' = << >>
    /\ updates' = 0
    /\ UNCHANGED grid_size

\* update(): no statement of the try block raises on these values, so the
\* except branch (error_count += 1) is never taken
Update ==
    /\ time_step < TickBound
    /\ time_step' = time_step + 1
    /\ LET pass == _handle_collisions(Integrate(objects))
       IN /\ objects' = _enforce_boundaries(pass.objs, grid_size)
          /\ checks' = pass.log
    /\ result' = None
    /\ updates' = updates + 1
    /\ UNCHANGED <<grid_size, error_count, origin>>

GetState ==
    /\ result' = get_state
    /\ UNCHANGED <<grid_size, objects, time_step, error_count, origin, checks, updates>>

\* the state after PhysicsEngine() with the default grid_size
Init ==
    /\ grid_size = 1000
    /\ objects = << >>
    /\ time_step = 0
    /\ error_count = 0
    /\ result = None
    /\ origin = [kind |-> "none", setup |-> << >>, again |-> FALSE]
    /\ checks = << >>
    /\ updates = 0

Next ==
    \/ \E g \in GridSizes : PhysicsEngineInit(g)
    \/ \E red_angle \in Angles, blue_angle \in Angles :
            InitializeSimulation(red_angle, blue_angle)
    \/ Update
    \/ GetState

Spec == Init /\ [][Next]_vars

-----------------------------------------------------------------------------
(* Hand-built scenarios: an engine of the default grid size whose object   *)
(* list a caller (a test) fills in directly.                               *)

\* the five static bodies of the default arena
Arena == SubSeq(initialize_simulation(1000, 0, 0), 1, 5)

\* a size-30 mobile body at integer position and velocity
Mobile(t, x, y, vx, vy) ==
    GameObject(t, IntVector(x, y), IntVector(vx, vy), 30,
               IF t = "red_block" THEN << 255, 0, 0 >> ELSE << 0, 0, 255 >>, FALSE)

\* two mobile bodies approaching each other along x, alone or in the arena
PairSetups ==
    { (IF arena THEN Arena ELSE << >>) \o
      << Mobile("red_block", ax, 500, 1, 0), Mobile("blue_block", bx, by, -1, 0) >> :
        ax \in {485, 490, 495}, bx \in {505, 510, 530}, by \in {500, 510},
        arena \in BOOLEAN }

\* one mobile body moving left toward the left wall of the arena
WallSetups ==
    { Arena \o << Mobile("red_block", x0, y0, -1, 0) >> :
        x0 \in {50, 45}, y0 \in {495, 500, 505, 530} }

InitScenario ==
    /\ grid_size = 1000
    /\ objects \in PairSetups \cup WallSetups
    /\ time_step = 0
    /\ error_count = 0
    /\ result = None
    /\ origin = [kind |-> "scenario", setup |-> objects, again |-> FALSE]
    /\ checks = << >>
    /\ updates = 0

NextScenario ==
    \/ Update
    \/ GetState

SpecScenario == InitScenario /\ [][NextScenario]_vars

-----------------------------------------------------------------------------
(* Overlap test on its own: two bodies a caller builds, and calls of       *)
(* a.check_collision(b) on them.                                           *)

\* a body of the given size at a position given in halves of a unit
Probe(x2, y2, size) ==
    GameObject("red_block", Vector2D(x2 * (Scale \div 2), y2 * (Scale \div 2)),
               IntVector(0, 0), size, << 255, 0, 0 >>, FALSE)

ProbeCoords == {-3, -1, 0, 1, 16, 17, 19, 20, 21, 23, 40}

InitOverlap ==
    /\ grid_size = 1000
    /\ \E x2 \in ProbeCoords, y2 \in ProbeCoords, sa \in {10, 5}, sb \in {10, 7} :
            objects = << Probe(0, 1, sa), Probe(x2, y2, sb) >>
    /\ time_step = 0
    /\ error_count = 0
    /\ result = None
    /\ origin = [kind |-> "probe", setup |-> objects, again |-> FALSE]
    /\ checks = << >>
    /\ updates = 0

CheckCollision(i, j) ==
    /\ result' = [kind |-> "bool", i |-> i, j |-> j,
                  value |-> check_collision(objects[i], objects[j])]
    /\ UNCHANGED <<grid_size, objects, time_step, error_count, origin, checks, updates>>

NextOverlap == \E i \in DOMAIN objects, j \in DOMAIN objects : CheckCollision(i, j)

SpecOverlap == InitOverlap /\ [][NextOverlap]_vars

-----------------------------------------------------------------------------
(* Properties *)

Mobiles == {k \in DOMAIN objects : ~ objects[k].is_static}

Initialised == origin.kind = "initialize"

HalfSize(k) == objects[k].size \div 2

\* the largest size among the bodies of the list
MaxSize == CHOOSE m \in {objects[k].size : k \in DOMAIN objects} :
                \A k \in DOMAIN objects : objects[k].size <= m

\* C1. Containment: in an initialised engine whose grid_size exceeds every
\* body size, after every completed update() each mobile body lies within
\* [half_size, grid_size - half_size] on both axes.
Containment ==
    (Initialised /\ updates >= 1 /\ grid_size > MaxSize) =>
        \A k \in Mobiles :
            /\ Fx(HalfSize(k)) <= objects[k].position.x
            /\ objects[k].position.x <= Fx(grid_size - HalfSize(k))
            /\ Fx(HalfSize(k)) <= objects[k].position.y
            /\ objects[k].position.y <= Fx(grid_size - HalfSize(k))

\* C1 witness: an update() has clamped the blue block, which started outside
\* a small arena, onto the upper limit of both axes.
ContainmentWitness ==
    /\ Initialised /\ updates >= 1 /\ grid_size = 100
    /\ objects[7].position = IntVector(85, 85)
    /\ origin.setup[7].position = IntVector(900, 900)

Norm2(v) == v.x * v.x + v.y * v.y


\* the collisions the most recent update() resolved
Hits == {n \in DOMAIN checks : checks[n].hit}

\* length of a velocity, to the nearest fixed point value
Speed(v) == RoundSqrt(Norm2(v))

\* the resolutions of the update() step being taken that reflected body k
Reflections(k) ==
    Cardinality({n \in DOMAIN checks' :
                    checks'[n].hit /\ (checks'[n].i = k \/ checks'[n].j = k)})

\* what the rounding of one reflection may change of a speed: 1/128
SpeedTolerance == Scale \div 128

\* C2. Speed conservation: every update() leaves the speed of every mobile
\* body unchanged, up to the rounding of the reflections it went through
\* (exactly unchanged when it went through none: integration and the
\* boundary clamp never change a speed).
SpeedConservation ==
    [][updates' = updates + 1 =>
        \A k \in Mobiles :
            Abs(Speed(objects'[k].velocity) - Speed(objects[k].velocity))
                <= SpeedTolerance * Reflections(k)]_vars

\* C2 witness: one update() has reflected a mobile body off a static body
\* and off the other mobile body, and its velocity changed.
SpeedConservationWitness ==
    /\ Initialised /\ updates >= 2
    /\ \E n \in Hits, m \in Hits :
        /\ checks[n].i = checks[m].i
        /\ objects[checks[n].j].is_static
        /\ ~ objects[checks[m].j].is_static
        /\ objects[checks[n].i].velocity # checks[n].before

\* C3. Static invariance: the static bodies of an initialised engine stay
\* exactly as initialize_simulation() created them.
StaticInvariance ==
    Initialised =>
        \A k \in DOMAIN origin.setup :
            origin.setup[k].is_static =>
                /\ k \in DOMAIN objects
                /\ objects[k].position = origin.setup[k].position
                /\ objects[k].velocity = origin.setup[k].velocity

\* C3 witness: an update() has resolved a collision against a static body.
StaticInvarianceWitness ==
    /\ Initialised /\ updates >= 2
    /\ \E n \in Hits : objects[checks[n].j].is_static

\* C4. Fixed population: an initialised engine always holds the 7 bodies
\* wall, wall, wall, wall, center_block, red_block, blue_block in this order,
\* the first five static and the last two mobile.
FixedPopulation ==
    Initialised =>
        /\ Len(objects) = 7
        /\ [k \in 1 .. 7 |-> objects[k].obj_type] =
              << "wall", "wall", "wall", "wall", "center_block", "red_block", "blue_block" >>
        /\ [k \in 1 .. 7 |-> objects[k].is_static] =
              << TRUE, TRUE, TRUE, TRUE, TRUE, FALSE, FALSE >>

\* C4 witness: an engine initialised a second time and then updated.
FixedPopulationWitness ==
    /\ Initialised /\ origin.again /\ updates >= 2
    /\ Len(objects) = 7

\* C7. Tick counter: in an initialised engine time_step is the number of
\* update() calls since the most recent initialize_simulation(), and the
\* time_step of the dict get_state() returns is that number too.
TickCounter ==
    Initialised =>
        /\ time_step = updates
        /\ result.kind = "dict" => result.time_step = updates

\* C7 witness: get_state() called after two updates of a re-initialised engine.
TickCounterWitness ==
    /\ Initialised /\ origin.again /\ updates = 2
    /\ result.kind = "dict" /\ result.time_step = 2

\* C8. Initial placement scales with the arena: right after
\* initialize_simulation() the red block is at (0.1, 0.1) * grid_size and the
\* blue block at (0.9, 0.9) * grid_size, both inside the arena.
InitialPlacementScales ==
    (Initialised /\ updates = 0) =>
        /\ 10 * objects[6].position.x = Fx(grid_size)
        /\ 10 * objects[6].position.y = Fx(grid_size)
        /\ 10 * objects[7].position.x = 9 * Fx(grid_size)
        /\ 10 * objects[7].position.y = 9 * Fx(grid_size)
        /\ \A k \in {6, 7} :
            /\ 0 <= objects[k].position.x /\ objects[k].position.x <= Fx(grid_size)
            /\ 0 <= objects[k].position.y /\ objects[k].position.y <= Fx(grid_size)

\* C9. Construction rejects an invalid arena size: no engine exists whose
\* grid_size is not positive.
ConstructionRejectsNonPositive == grid_size > 0

-----------------------------------------------------------------------------
(* Scenarios *)

PairScenario(arena) ==
    (IF arena THEN Arena ELSE << >>) \o
    << Mobile("red_block", 495, 500, 1, 0), Mobile("blue_block", 505, 500, -1, 0) >>

\* C5. Mobile-mobile scenario: A at (495,500) moving right and B at
\* (505,500) moving left; one update() leaves A moving left, B moving right
\* and the two no longer overlapping.
PairBouncesApart ==
    (origin.setup \in {PairScenario(TRUE), PairScenario(FALSE)} /\ updates = 1) =>
        LET A == objects[Len(objects) - 1]
            B == objects[Len(objects)]
        IN /\ A.velocity.x < 0
           /\ B.velocity.x > 0
           /\ ~ check_collision(A, B)

HeadOnScenario == Arena \o << Mobile("red_block", 50, 500, -1, 0) >>

\* C6. Head-on wall scenario: the box of the left wall spans x up to 20; the
\* body reaches it at the 15th update(), which turns its velocity from (-1,0)
\* to (1,0) and leaves it farther from the wall than the contact position
\* x = 35; no update() ever ends with the body overlapping the wall, and
\* every contact with the wall finds the body moving toward it and leaves it
\* moving away.
HeadOnWallBounce ==
    origin.setup = HeadOnScenario =>
        LET body == objects[6]
            wall == objects[3]
        IN /\ get_bounds(wall)[3] = 20
           /\ updates < 15 => body.velocity = IntVector(-1, 0)
           /\ updates = 15 =>
                /\ body.velocity = IntVector(1, 0)
                /\ body.position.x > Fx(35)
           /\ ~ check_collision(body, wall)
           /\ \A n \in Hits :
                checks[n].j = 3 =>
                    /\ checks[n].before.x < 0
                    /\ body.velocity.x > 0

\* C6 witness: the body, back from the center block, meets the wall a
\* second time.
HeadOnWallBounceWitness ==
    /\ origin.setup = HeadOnScenario /\ updates > 15
    /\ \E n \in Hits : checks[n].j = 3
    /\ objects[6].velocity = IntVector(1, 0)

\* the integer points of two boxes on both axes have a point in common
BoxesMeet(b1, b2) ==
    /\ (b1[1] .. b1[3]) \cap (b2[1] .. b2[3]) # {}
    /\ (b1[2] .. b1[4]) \cap (b2[2] .. b2[4]) # {}

\* C10. Overlap semantics: check_collision(a, b) is true exactly when the
\* boxes of a and b have a point in common on both axes, boxes that only
\* share an edge included, and it gives the same answer for (b, a).
OverlapSemantics ==
    result.kind = "bool" =>
        LET a == objects[result.i]
            b == objects[result.j]
            b1 == get_bounds(a)
            b2 == get_bounds(b)
        IN /\ result.value = BoxesMeet(b1, b2)
           /\ result.value = check_collision(b, a)
           /\ (b1[3] = b2[1] /\ b1[2] <= b2[4] /\ b2[2] <= b1[4]) => result.value

\* C10 witness: a call on two boxes that share exactly one edge.
OverlapSemanticsWitness ==
    /\ result.kind = "bool" /\ result.value
    /\ LET b1 == get_bounds(objects[result.i])
           b2 == get_bounds(objects[result.j])
       IN b1[3] = b2[1] /\ b1[2] < b2[4] /\ b2[2] < b1[4]

====
